---------------------------- MODULE Spec2Model ----------------------------
(***************************************************************************)
(* Suggestion lifecycle of the text-copilot editor:                        *)
(*   RichTextEditor.tsx   (debounce, dedupe, request, display, keys)       *)
(*   useAICompletion.ts   (requestCompletion / cancelCompletion, cleaner)  *)
(*   GhostTextExtension.ts (overlay storage and its three commands)        *)
(*   App.tsx              (handleCompletionRequest, connection gate)       *)
(*                                                                         *)
(* Strings are sequences of one-character strings.  Every action is one    *)
(* task of the JavaScript event loop: the synchronous handler followed by  *)
(* the promise continuations (microtasks) that it makes runnable.          *)
(***************************************************************************)
EXTENDS Integers, Sequences, FiniteSets, TLC

(***************************************************************************)
(* Bounds of the model.                                                    *)
(***************************************************************************)
\* longest document text the user types or indents into (an accepted
\* suggestion may make it one suggestion longer)
MaxDocLen == 3
\* the same, where the user only types letters (TypingNext)
MaxTypedLen == 4
\* the debounce delay (debounceMs), counted in clock ticks
DebounceTicks == 2

\* characters the user types
TypedChars == {"a"}

(***************************************************************************)
(* String helpers (JavaScript String.prototype semantics).                 *)
(***************************************************************************)
IsWs(c) == c \in {" ", "\n", "\t"}

RECURSIVE trimStart(_)
trimStart(s) ==
  IF s = <<>> THEN <<>>
  ELSE IF IsWs(Head(s)) THEN trimStart(Tail(s)) ELSE s

RECURSIVE trimEnd(_)
trimEnd(s) ==
  IF s = <<>> THEN <<>>
  ELSE IF IsWs(s[Len(s)]) THEN trimEnd(SubSeq(s, 1, Len(s) - 1)) ELSE s

trim(s) == trimEnd(trimStart(s))

\* s.slice(a, b) with 0-based, end-exclusive indices
slice(s, a, b) == SubSeq(s, a + 1, b)

\* s.lastIndexOf(c): 0-based index of the last c, or -1
lastIndexOf(s, c) ==
  LET hits == {i \in 1..Len(s) : s[i] = c}
  IN  IF hits = {} THEN -1
      ELSE (CHOOSE i \in hits : \A j \in hits : j <= i) - 1

\* s starts with the literal p
startsWith(s, p) == Len(s) >= Len(p) /\ SubSeq(s, 1, Len(p)) = p

\* s.indexOf(p): 0-based index of the first occurrence of p, or -1
indexOf(s, p) ==
  LET hits == {i \in 0..Len(s) : startsWith(SubSeq(s, i + 1, Len(s)), p)}
  IN  IF hits = {} THEN -1
      ELSE CHOOSE i \in hits : \A j \in hits : i <= j

\* s.split('\n')
RECURSIVE split(_)
split(s) ==
  LET i == indexOf(s, <<"\n">>)
  IN  IF i = -1 THEN <<s>>
      ELSE <<slice(s, 0, i)>> \o split(SubSeq(s, i + 2, Len(s)))

\* lines.join('\n')
RECURSIVE join(_)
join(lines) ==
  IF lines = <<>> THEN <<>>
  ELSE IF Len(lines) = 1 THEN lines[1]
  ELSE lines[1] \o <<"\n">> \o join(Tail(lines))

NonBlank(l) == trim(l) # <<>>

(***************************************************************************)
(* Context Extractor: the dedupe key.                                      *)
(***************************************************************************)
\* mutant: a blank current line falls back to the first line with text
buildSmartContext_FirstLine(text, cursorPos) ==
  LET beforeCursor   == slice(text, 0, cursorPos)
      lastNewlineIdx == lastIndexOf(beforeCursor, "\n")
      currentLine    == IF lastNewlineIdx >= 0
                        THEN SubSeq(beforeCursor, lastNewlineIdx + 2, Len(beforeCursor))
                        ELSE beforeCursor
      lines          == SelectSeq(split(beforeCursor), NonBlank)
  IN  IF Len(trim(currentLine)) > 0 THEN currentLine
      ELSE IF Len(lines) > 0 THEN lines[1]
      ELSE beforeCursor

buildSmartContext(text, cursorPos) ==
  LET beforeCursor   == slice(text, 0, cursorPos)
      lastNewlineIdx == lastIndexOf(beforeCursor, "\n")
      currentLine    == IF lastNewlineIdx >= 0
                        THEN SubSeq(beforeCursor, lastNewlineIdx + 2, Len(beforeCursor))
                        ELSE beforeCursor
      lines          == SelectSeq(split(beforeCursor), NonBlank)
  IN  IF Len(trim(currentLine)) > 0 THEN currentLine
      ELSE IF Len(lines) > 0 THEN lines[Len(lines)]
      ELSE beforeCursor

\* the minimum-length policy of triggerCompletionRequest
MinContextLen == 3
\* the minimum-length policy of requestCompletion
MinPrefixLen == 2

\* mutant: the editor applies the hook's threshold
ContextTooShort_Prefix(key) == Len(trim(key)) < MinPrefixLen

ContextTooShort(key) == Len(trim(key)) < MinContextLen


(***************************************************************************)
(* Response Normalizer.                                                    *)
(***************************************************************************)
\* config.stopSequences (DEFAULT_COMPLETION_CONFIG)
stopSequences ==
  << <<"\n", "\n">>, <<"`", "`", "`">>, <<"\"", "\"", "\"">>, <<"'", "'", "'">> >>

\* the characters matched by \w
WordChars ==
  {"a", "b", "c", "d", "e", "f", "g", "h", "i", "j", "k", "l", "m", "n", "o",
   "p", "q", "r", "s", "t", "u", "v", "w", "x", "y", "z", "_",
   "A", "B", "C", "D", "E", "F", "G", "H", "I", "J", "K", "L", "M", "N", "O",
   "P", "Q", "R", "S", "T", "U", "V", "W", "X", "Y", "Z",
   "0", "1", "2", "3", "4", "5", "6", "7", "8", "9"}

\* length of the longest run of \w characters at the start of s
RECURSIVE wordRun(_)
wordRun(s) ==
  IF s # <<>> /\ Head(s) \in WordChars THEN 1 + wordRun(Tail(s)) ELSE 0

\* length of the match of  open \w+ "|>"  (or  open "|>"  when ~word) at the
\* start of s; 0 when there is no match
tagMatch(s, open, word) ==
  IF ~startsWith(s, open) THEN 0
  ELSE LET rest == SubSeq(s, Len(open) + 1, Len(s))
           k    == IF word THEN wordRun(rest) ELSE 0
           tl   == SubSeq(rest, k + 1, Len(rest))
       IN  IF (word => k >= 1) /\ startsWith(tl, <<"|", ">">>)
           THEN Len(open) + k + 2 ELSE 0

\* s.replace(/open\w+\|>/g, ''): one left-to-right pass, matches do not overlap
RECURSIVE removeTag(_, _, _)
\* mutant: the pattern has no g flag, only the first match is removed
removeTag_First(s, open, word) ==
  LET hits == {i \in 0..Len(s) : tagMatch(SubSeq(s, i + 1, Len(s)), open, word) > 0}
      i    == CHOOSE i \in hits : \A j \in hits : i <= j
  IN  IF hits = {} THEN s
      ELSE SubSeq(s, 1, i)
           \o SubSeq(s, i + tagMatch(SubSeq(s, i + 1, Len(s)), open, word) + 1, Len(s))

removeTag(s, open, word) ==
  IF s = <<>> THEN <<>>
  ELSE LET m == tagMatch(s, open, word)
       IN  IF m > 0 THEN removeTag(SubSeq(s, m + 1, Len(s)), open, word)
           ELSE <<Head(s)>> \o removeTag(Tail(s), open, word)

\* the for-loop over the stop sequences: each one cuts what is left
RECURSIVE cutAtStops(_, _)
cutAtStops(s, stops) ==
  IF stops = <<>> THEN s
  ELSE LET index == indexOf(s, Head(stops))
       IN  cutAtStops(IF index # -1 THEN slice(s, 0, index) ELSE s, Tail(stops))

IsQuote(c) == c \in {"\"", "'"}

\* s.replace(/^["']|["']$/g, '')
stripQuotes(s) ==
  LET a == IF s # <<>> /\ IsQuote(Head(s)) THEN Tail(s) ELSE s
  IN  IF a # <<>> /\ IsQuote(a[Len(a)]) THEN SubSeq(a, 1, Len(a) - 1) ELSE a

\* s.replace(/^\n+/, '')
RECURSIVE stripLeadingNewlines(_)
stripLeadingNewlines(s) ==
  IF s # <<>> /\ Head(s) = "\n" THEN stripLeadingNewlines(Tail(s)) ELSE s

MaxLines == 3

\* mutant: the number of lines is not capped
cleanCompletionText_NoCap(text, stops) ==
  IF text = <<>> THEN <<>>
  ELSE LET c0    == cutAtStops(text, stops)
           c1    == removeTag(c0, <<"<", "|", "f", "i", "m", "_">>, TRUE)
           c2    == removeTag(c1, <<"<", "|", "e", "n", "d", "o", "f", "t", "e", "x", "t">>, FALSE)
           c3    == removeTag(c2, <<"<", "|", "i", "m", "_">>, TRUE)
           c4    == removeTag(c3, <<"<", "|", "e", "n", "d">>, FALSE)
           c5    == stripQuotes(c4)
           lines == SelectSeq(split(c5), NonBlank)
       IN  trimEnd(stripLeadingNewlines(join(lines)))

cleanCompletionText(text, stops) ==
  IF text = <<>> THEN <<>>
  ELSE LET c0    == cutAtStops(text, stops)
           c1    == removeTag(c0, <<"<", "|", "f", "i", "m", "_">>, TRUE)
           c2    == removeTag(c1, <<"<", "|", "e", "n", "d", "o", "f", "t", "e", "x", "t">>, FALSE)
           c3    == removeTag(c2, <<"<", "|", "i", "m", "_">>, TRUE)
           c4    == removeTag(c3, <<"<", "|", "e", "n", "d">>, FALSE)
           c5    == stripQuotes(c4)
           lines == SelectSeq(split(c5), NonBlank)
           c6    == IF Len(lines) > MaxLines
                    THEN join(SubSeq(lines, 1, MaxLines)) ELSE join(lines)
       IN  trimEnd(stripLeadingNewlines(c6))


(***************************************************************************)
(* State.                                                                  *)
(***************************************************************************)
VARIABLES
  doc,                   \* editor.getText(): the document text
  cursor,                \* text offset of the (collapsed) selection
  currentCompletionRef,  \* RichTextEditor: text of the suggestion, '' when none
  completionPositionRef, \* RichTextEditor: position of the suggestion
  lastContextRef,        \* RichTextEditor: dedupe key stored by the last fire
  hasCompletion,         \* RichTextEditor: "completion ready" flag
  internalLoading,       \* RichTextEditor: loading flag
  storage,               \* GhostTextExtension: [ghostText, position]
  timers,                \* pending setTimeout timers: [id, remaining]
  debounceTimerRef,      \* RichTextEditor: id of the last timer set, 0 = null
  pending,               \* backend calls awaited by triggerCompletionRequest
  abortControllerRef,    \* useAICompletion: id of the last call, 0 = null
  status,                \* useAICompletion: idle | loading | success | error
  error,                 \* useAICompletion: error message or null
  isConnected,           \* useAIStatus: the service answered the last check
  sinceEdit,             \* history: ticks since the last edit (saturating)
  editedSinceShow,       \* history: the document changed under the overlay
  owed,                  \* history: 1 or 2 while a suggestion is due, else 0
  hist,                  \* history: [moved, ..., accepted], see Track
  applied,               \* a function applied on its own: [fn, arg, out]
  ollama,                \* useOllamaStatus: the checks and what they reported
  last                   \* history: what the last step did

vars == <<doc, cursor, currentCompletionRef, completionPositionRef,
          lastContextRef, hasCompletion, internalLoading, storage, timers,
          debounceTimerRef, pending, abortControllerRef, status, error,
          isConnected, sinceEdit, editedSinceShow, owed, hist, applied, ollama, last>>

NoError == "null"
ErrorMessages == {"net"}

\* raw model outputs the backend may answer with
RawOutputs ==
  { <<"a", "<", "|", "e", "n", "d", "o", "f", "t", "e", "x", "t", "|", ">">>,
    <<"<", "|", "e", "n", "d", "|", ">">> }

\* editor.state.selection.from for a text offset: position 0 is before the
\* first block, the text starts at position 1
SelectionFrom(offset) == offset + 1
\* the text offset of a position
OffsetOf(position) == position - 1

\* editor.state.doc.textBetween(0, from, '\n') and textBetween(from, size, '\n')
textBefore(d, from) == SubSeq(d, 1, OffsetOf(from))
textAfter(d, from)  == SubSeq(d, OffsetOf(from) + 1, Len(d))

\* the mutable state the handlers work on, as one record
Cur ==
  [cur     |-> currentCompletionRef,  pos    |-> completionPositionRef,
   lastCtx |-> lastContextRef,        has    |-> hasCompletion,
   loading |-> internalLoading,       st     |-> storage,
   timers  |-> timers,                tref   |-> debounceTimerRef,
   pending |-> pending,               acRef  |-> abortControllerRef,
   status  |-> status,                error  |-> error,
   since   |-> sinceEdit,             edited |-> editedSinceShow]

\* the handler's result becomes the next state (r is s, evaluated once)
Commit(s) ==
  \E r \in {s} :
    /\ currentCompletionRef'  = r.cur
    /\ completionPositionRef' = r.pos
    /\ lastContextRef'        = r.lastCtx
    /\ hasCompletion'         = r.has
    /\ internalLoading'       = r.loading
    /\ storage'               = r.st
    /\ timers'                = r.timers
    /\ debounceTimerRef'      = r.tref
    /\ pending'               = r.pending
    /\ abortControllerRef'    = r.acRef
    /\ status'                = r.status
    /\ error'                 = r.error
    /\ sinceEdit'             = r.since
    /\ editedSinceShow'       = r.edited

\* the smallest id that no element of the set uses
FreshId(set) ==
  CHOOSE i \in 1..(Cardinality(set) + 1) :
    /\ \A x \in set : x.id # i
    /\ \A j \in 1..(i - 1) : \E x \in set : x.id = j

\* type:       edit | accept | move | escape | other  (user and clock steps)
\*             short | duplicate | offline | noCall | issue  (timer fires)
\*             response
\* reset:      the edit cancelled a timer that was still pending
\* aborted:    number of calls the timer fire aborted
\* ok, text:   the response was a success, and its cleaned text
\* fromMatch:  the cursor was at the position the call was issued for
\* displayed:  the response was put on the overlay
\* stale:      the document was edited after the call was issued
\* superseded: a later call was started after this one
Event(type) ==
  [type |-> type, reset |-> FALSE, aborted |-> 0, ok |-> FALSE, text |-> <<>>,
   fromMatch |-> FALSE, displayed |-> FALSE, stale |-> FALSE,
   superseded |-> FALSE]

\* the event of a step that edited the document
EditEvent(type) == [Event(type) EXCEPT !.reset = (timers # {})]

\* the steps that change the document
IsEdit(e) == e.type \in {"edit", "accept"}

\* useOllamaStatus as it is mounted, before its effect has run: no check has
\* started (started counts them, inflight holds the ones not yet answered,
\* finished is the outcome of the check that was answered last)
Mounted ==
  [isChecking |-> TRUE, error |-> NoError, models |-> <<>>,
   inflight |-> {}, started |-> 0, finished |-> "none"]

\* the editor as it is mounted
EditorInit ==
  /\ doc = <<>>
  /\ cursor = 0
  /\ currentCompletionRef = <<>>
  /\ completionPositionRef = 0
  /\ lastContextRef = <<>>
  /\ hasCompletion = FALSE
  /\ internalLoading = FALSE
  /\ storage = [ghostText |-> <<>>, position |-> 0]
  /\ timers = {}
  /\ debounceTimerRef = 0
  /\ pending = {}
  /\ abortControllerRef = 0
  /\ status = "idle"
  /\ error = NoError
  /\ isConnected = FALSE
  /\ sinceEdit = DebounceTicks
  /\ editedSinceShow = FALSE
  /\ owed = 0
  /\ hist = [moved |-> FALSE, failed |-> "no", over |-> FALSE, issued |-> <<>>,
          accepted |-> FALSE]
  /\ ollama = Mounted
  /\ last = Event("init")

\* no function is applied on its own
NoCall == [fn |-> "none", arg |-> <<>>, out |-> <<>>]

Init == EditorInit /\ applied = NoCall

(***************************************************************************)
(* Ghost overlay commands (GhostTextExtension.addCommands).                *)
(***************************************************************************)
setGhostText(s, text, position) ==
  [s EXCEPT !.st = [ghostText |-> text, position |-> position],
            !.edited = FALSE]

clearGhostText(s) ==
  [s EXCEPT !.st = [ghostText |-> <<>>, position |-> 0],
            !.edited = FALSE]

\* mutant: lines without text are left out
insertedContent_SkipsEmpty(ghostText) ==
  LET lines == SelectSeq(split(ghostText), LAMBDA l : l # <<>>)
  IN  IF Len(split(ghostText)) > 1
      THEN [i \in 1..Len(lines) |->
              [type    |-> "paragraph",
               content |-> << [type |-> "text", text |-> lines[i]] >>]]
      ELSE ghostText

\* acceptGhostText: the content handed to insertContentAt, a list of
\* paragraph nodes for a text of several lines and the text itself otherwise
insertedContent(ghostText) ==
  LET lines == split(ghostText)
  IN  IF Len(lines) > 1
      THEN [i \in 1..Len(lines) |->
              [type    |-> "paragraph",
               content |-> IF lines[i] # <<>>
                           THEN << [type |-> "text", text |-> lines[i]] >>
                           ELSE <<>>]]
      ELSE ghostText

\* acceptGhostText as a command: what it returns, the storage it leaves and
\* the insertContentAt it chains
acceptGhostTextCommand(st) ==
  IF st.ghostText = <<>>
  THEN [returns |-> FALSE, storage |-> st, insertContentAt |-> <<>>]
  ELSE [returns         |-> TRUE,
        storage         |-> [ghostText |-> <<>>, position |-> 0],
        insertContentAt |-> <<st.position, insertedContent(st.ghostText)>>]

\* mutant: the text is appended to the document
acceptGhostText_Append(d, st) ==
  IF st.ghostText = <<>> THEN d ELSE d \o st.ghostText

\* the document after acceptGhostText: insertContentAt(position, ghostText),
\* or nothing when the storage holds no text
acceptGhostText(d, st) ==
  IF st.ghostText = <<>> THEN d
  ELSE SubSeq(d, 1, OffsetOf(st.position)) \o st.ghostText
       \o SubSeq(d, OffsetOf(st.position) + 1, Len(d))

\* the three statements that follow every clearGhostText / acceptGhostText
resetCompletionRefs(s) ==
  [s EXCEPT !.cur = <<>>, !.pos = 0, !.has = FALSE]

(***************************************************************************)
(* Editor callbacks (RichTextEditor, useEditor options).                   *)
(***************************************************************************)
\* mutant: a cursor move leaves the overlay alone
onSelectionUpdate_Keep(s, from) == s

\* mutant: the refs are reset but the overlay keeps its text
onSelectionUpdate_RefsOnly(s, from) ==
  IF s.cur # <<>> /\ from # s.pos THEN resetCompletionRefs(s) ELSE s

onSelectionUpdate(s, from) ==
  IF s.cur # <<>> /\ from # s.pos
  THEN resetCompletionRefs(clearGhostText(s))
  ELSE s

clearTimeout(ts, id) == {t \in ts : t.id # id}

\* mutant: the timer is never armed
setTimeout_Never(ts, delay) == ts

setTimeout(ts, delay) == ts \cup {[id |-> FreshId(ts), remaining |-> delay]}

\* mutant: an edit forgets the stored key
onUpdate_ForgetsKey(s) ==
  LET s1  == IF s.cur # <<>> THEN resetCompletionRefs(clearGhostText(s)) ELSE s
      ts  == IF s1.tref # 0 THEN clearTimeout(s1.timers, s1.tref) ELSE s1.timers
  IN  [s1 EXCEPT !.timers  = setTimeout(ts, DebounceTicks),
                 !.tref    = FreshId(ts),
                 !.lastCtx = <<>>,
                 !.since   = 0,
                 !.edited  = (s1.st.ghostText # <<>>),
                 !.pending = {[r EXCEPT !.stale = TRUE] : r \in s1.pending}]

\* mutant: the previous timer is not cleared
onUpdate_NoClear(s) ==
  LET s1 == IF s.cur # <<>> THEN resetCompletionRefs(clearGhostText(s)) ELSE s
  IN  [s1 EXCEPT !.timers  = setTimeout(s1.timers, DebounceTicks),
                 !.tref    = FreshId(s1.timers),
                 !.since   = 0,
                 !.edited  = (s1.st.ghostText # <<>>),
                 !.pending = {[r EXCEPT !.stale = TRUE] : r \in s1.pending}]

\* mutant: an edit leaves the suggestion alone
onUpdate_KeepOverlay(s) ==
  LET ts == IF s.tref # 0 THEN clearTimeout(s.timers, s.tref) ELSE s.timers
  IN  [s EXCEPT !.timers  = setTimeout(ts, DebounceTicks),
                !.tref    = FreshId(ts),
                !.since   = 0,
                !.edited  = (s.st.ghostText # <<>>),
                !.pending = {[r EXCEPT !.stale = TRUE] : r \in s.pending}]

onUpdate(s) ==
  LET s1  == IF s.cur # <<>> THEN resetCompletionRefs(clearGhostText(s)) ELSE s
      ts  == IF s1.tref # 0 THEN clearTimeout(s1.timers, s1.tref) ELSE s1.timers
  IN  [s1 EXCEPT !.timers  = setTimeout(ts, DebounceTicks),
                 !.tref    = FreshId(ts),
                 !.since   = 0,
                 !.edited  = (s1.st.ghostText # <<>>),
                 !.pending = {[r EXCEPT !.stale = TRUE] : r \in s1.pending}]

\* a transaction of the editor: 'selectionUpdate' is emitted before 'update'
dispatch(s, selectionChanged, docChanged, from) ==
  LET s1 == IF selectionChanged THEN onSelectionUpdate(s, from) ELSE s
  IN  IF docChanged THEN onUpdate(s1) ELSE s1


(***************************************************************************)
(* useAICompletion: cancelCompletion / requestCompletion.                  *)
(***************************************************************************)
\* mutant: the signal does not reach the fetch
abort_Ignored(reqs, id) == reqs

\* AbortController.abort(): the fetch of that call rejects with AbortError
abort(reqs, id) ==
  {IF r.id = id THEN [r EXCEPT !.aborted = TRUE] ELSE r : r \in reqs}

\* mutant: the controller is dropped without abort()
cancelCompletion_NoAbort(s) == [s EXCEPT !.acRef = 0, !.status = "idle"]

cancelCompletion(s) ==
  LET s1 == IF s.acRef # 0
            THEN [s EXCEPT !.pending = abort(s.pending, s.acRef), !.acRef = 0]
            ELSE s
  IN  [s1 EXCEPT !.status = "idle"]

\* mutant: an empty completion is displayed like any other
completionArrived_NoEmptyCheck(s, completion, from, currentFrom) ==
  LET s1 == IF currentFrom = from
            THEN [setGhostText(s, completion, from)
                    EXCEPT !.cur = completion, !.pos = from, !.has = TRUE]
            ELSE s
  IN  [s1 EXCEPT !.loading = FALSE]

\* mutant: the cursor position is not compared
completionArrived_NoCursorCheck(s, completion, from, currentFrom) ==
  LET s1 == IF completion # <<>> /\ trim(completion) # <<>>
            THEN [setGhostText(s, completion, from)
                    EXCEPT !.cur = completion, !.pos = from, !.has = TRUE]
            ELSE s
  IN  [s1 EXCEPT !.loading = FALSE]

\* triggerCompletionRequest after the await: the try body and the finally
completionArrived(s, completion, from, currentFrom) ==
  LET s1 == IF completion # <<>> /\ trim(completion) # <<>> /\ currentFrom = from
            THEN [setGhostText(s, completion, from)
                    EXCEPT !.cur = completion, !.pos = from, !.has = TRUE]
            ELSE s
  IN  [s1 EXCEPT !.loading = FALSE]

\* the prompt that requestAICompletion posts as the message content
buildFIMPrompt(context) ==
  LET prefix    == context.prefix
      suffix    == context.suffix
      hasSuffix == suffix # <<>> /\ Len(trim(suffix)) > 0
  IN  IF hasSuffix
      THEN <<"<", "|", "f", "i", "m", "_", "p", "r", "e", "f", "i", "x", "|", ">">>
           \o prefix
           \o <<"<", "|", "f", "i", "m", "_", "s", "u", "f", "f", "i", "x", "|", ">">>
           \o suffix
           \o <<"<", "|", "f", "i", "m", "_", "m", "i", "d", "d", "l", "e", "|", ">">>
      ELSE <<"<", "|", "f", "i", "m", "_", "p", "r", "e", "f", "i", "x", "|", ">">>
           \o prefix
           \o <<"<", "|", "f", "i", "m", "_", "m", "i", "d", "d", "l", "e", "|", ">">>

\* what the promise of requestCompletion is when the call returns to its
\* caller: settled with '' for a short prefix, else waiting for the backend
requestCompletionReturn(context) ==
  IF Len(trim(context.prefix)) < MinPrefixLen
  THEN [settled |-> TRUE, value |-> <<>>]
  ELSE [settled |-> FALSE, value |-> <<>>]

\* mutant: the length of the prefix is tested before the old call is cancelled
requestCompletion_ChecksFirst(s, context, from) ==
  LET started(s1, id) ==
        [s1 EXCEPT
           !.acRef   = id,
           !.status  = "loading",
           !.error   = NoError,
           !.pending =
              {[r EXCEPT !.superseded = TRUE] : r \in s1.pending}
              \cup {[id |-> id, from |-> from, key |-> s1.lastCtx,
                     context |-> context, prompt |-> buildFIMPrompt(context),
                     aborted |-> FALSE, stale |-> FALSE,
                     superseded |-> FALSE]}]
      after(s1) == started(s1, FreshId(s1.pending))
  IN  IF Len(trim(context.prefix)) < MinPrefixLen
      THEN completionArrived(s, <<>>, from, from)
      ELSE CHOOSE out \in {after(s1) : s1 \in {cancelCompletion(s)}} : TRUE

\* requestCompletion up to its await; a call that returns '' at once has its
\* caller's continuation run in the same task
requestCompletion(s, context, from) ==
  LET started(s1, id) ==
        [s1 EXCEPT
           !.acRef   = id,
           !.status  = "loading",
           !.error   = NoError,
           !.pending =
              {[r EXCEPT !.superseded = TRUE] : r \in s1.pending}
              \cup {[id |-> id, from |-> from, key |-> s1.lastCtx,
                     context |-> context, prompt |-> buildFIMPrompt(context),
                     aborted |-> FALSE, stale |-> FALSE,
                     superseded |-> FALSE]}]
      \* s1 is the state after cancelCompletion(), evaluated once
      after(s1) ==
        IF Len(trim(context.prefix)) < MinPrefixLen
        THEN completionArrived(s1, <<>>, from, from)
        ELSE started(s1, FreshId(s1.pending))
  IN  CHOOSE out \in {after(s1) : s1 \in {cancelCompletion(s)}} : TRUE

\* requestCompletion after the await resolved: clean, record, return
requestCompletionResolved(s) ==
  [s EXCEPT !.status = "success"]

\* mutant: a failure is handled like an abort
requestCompletionRejected_AsAbort(s, message) ==
  [s EXCEPT !.status = "idle"]

\* mutant: a failure schedules another attempt
requestCompletionRejected_Retry(s, message) ==
  [s EXCEPT !.error = message, !.status = "error",
            !.timers = setTimeout(s.timers, DebounceTicks)]

\* requestCompletion's catch for an error other than AbortError
requestCompletionRejected(s, message) ==
  [s EXCEPT !.error = message, !.status = "error"]

\* mutant: the catch does not tell an abort from a failure
drainAborted_AsError(s) ==
  LET gone == {r \in s.pending : r.aborted}
  IN  IF gone = {} THEN s
      ELSE [s EXCEPT !.pending = s.pending \ gone,
                     !.status  = "error",
                     !.error   = "net",
                     !.loading = FALSE]

\* the continuations of the calls that were aborted in this task: the catch
\* for AbortError (status idle, return '') and the caller's finally
drainAborted(s) ==
  LET gone == {r \in s.pending : r.aborted}
  IN  IF gone = {} THEN s
      ELSE [s EXCEPT !.pending = s.pending \ gone,
                     !.status  = "idle",
                     !.loading = FALSE]

(***************************************************************************)
(* App.handleCompletionRequest and RichTextEditor.triggerCompletionRequest *)
(***************************************************************************)
\* mutant: the connection state is not consulted
handleCompletionRequest_Always(s, connected, context, from) ==
  requestCompletion(s, context, from)

handleCompletionRequest(s, connected, context, from) ==
  IF ~connected THEN completionArrived(s, <<>>, from, from)
  ELSE requestCompletion(s, context, from)

\* mutant: the length of the key is not checked
Policy_NoLengthCheck(key, lastKey) ==
  IF key = lastKey THEN "duplicate" ELSE "pass"

\* mutant: the key is not compared with the last one
Policy_NoDuplicateCheck(key, lastKey) ==
  IF ContextTooShort(key) THEN "short" ELSE "pass"

\* the outcome of the two policy checks of triggerCompletionRequest
Policy(key, lastKey) ==
  IF ContextTooShort(key) THEN "short"
  ELSE IF key = lastKey THEN "duplicate"
  ELSE "pass"

\* mutant: the dedupe key is passed on as the prefix
triggerCompletionRequest_SendsKey(s, d, from, connected) ==
  LET textBeforeCursor   == textBefore(d, from)
      textAfterCursor    == textAfter(d, from)
      currentLineContext == buildSmartContext(textBeforeCursor, Len(textBeforeCursor))
      checked(key) ==
        IF Policy(key, s.lastCtx) # "pass" THEN s
        ELSE handleCompletionRequest(
               [s EXCEPT !.lastCtx = key,
                         !.loading = TRUE,
                         !.has     = FALSE],
               connected,
               [prefix |-> key, suffix |-> textAfterCursor],
               from)
  IN  CHOOSE out \in {checked(key) : key \in {currentLineContext}} : TRUE

triggerCompletionRequest(s, d, from, connected) ==
  LET textBeforeCursor   == textBefore(d, from)
      textAfterCursor    == textAfter(d, from)
      currentLineContext == buildSmartContext(textBeforeCursor, Len(textBeforeCursor))
      \* key is currentLineContext, evaluated once
      checked(key) ==
        IF Policy(key, s.lastCtx) # "pass" THEN s
        ELSE handleCompletionRequest(
               [s EXCEPT !.lastCtx = key,
                         !.loading = TRUE,
                         !.has     = FALSE],
               connected,
               [prefix |-> textBeforeCursor, suffix |-> textAfterCursor],
               from)
  IN  CHOOSE out \in {checked(key) : key \in {currentLineContext}} : TRUE


(***************************************************************************)
(* Actions: one per task of the event loop.                                *)
(***************************************************************************)
insertAt(d, offset, text) ==
  SubSeq(d, 1, offset) \o text \o SubSeq(d, offset + 1, Len(d))

removeAt(d, offset) ==
  SubSeq(d, 1, offset) \o SubSeq(d, offset + 2, Len(d))

\* the user types the character c at the cursor
TypeChar(c) ==
  /\ doc' = insertAt(doc, cursor, <<c>>)
  /\ cursor' = cursor + 1
  /\ Commit(dispatch(Cur, TRUE, TRUE, SelectionFrom(cursor + 1)))
  /\ last' = EditEvent("edit")
  /\ UNCHANGED isConnected

\* Backspace: removes the character before the cursor
Backspace ==
  /\ cursor > 0
  /\ doc' = removeAt(doc, cursor - 1)
  /\ cursor' = cursor - 1
  /\ Commit(dispatch(Cur, TRUE, TRUE, SelectionFrom(cursor - 1)))
  /\ last' = EditEvent("edit")
  /\ UNCHANGED isConnected

\* Delete: removes the character after the cursor, the selection stays
DeleteForward ==
  /\ cursor < Len(doc)
  /\ doc' = removeAt(doc, cursor)
  /\ cursor' = cursor
  /\ Commit(dispatch(Cur, FALSE, TRUE, SelectionFrom(cursor)))
  /\ last' = EditEvent("edit")
  /\ UNCHANGED isConnected

\* click or arrow key: the selection moves, the document stays
MoveCursor(offset) ==
  /\ offset # cursor
  /\ cursor' = offset
  /\ Commit(dispatch(Cur, TRUE, FALSE, SelectionFrom(offset)))
  /\ last' = Event(IF storage'.ghostText # storage.ghostText THEN "move" ELSE "other")
  /\ UNCHANGED <<doc, isConnected>>

\* mutant: Tab always tries to accept
TabBranch_Accept(completion) == "accept"

\* handleKeyDown, Tab: which branch the handler takes
TabBranch(completion) == IF completion # <<>> THEN "accept" ELSE "indent"

\* mutant: the acceptance is not seen as a change of the document
KeyTabAccept_NoUpdate ==
  /\ TabBranch(currentCompletionRef) = "accept"
  /\ LET ghostText == storage.ghostText
         position  == storage.position
     IN  IF ghostText = <<>>
         THEN /\ Commit(resetCompletionRefs(Cur))
              /\ last' = Event("other")
              /\ UNCHANGED <<doc, cursor>>
         ELSE /\ OffsetOf(position) \in 0..Len(doc)
              /\ doc' = acceptGhostText(doc, storage)
              /\ cursor' = OffsetOf(position) + Len(ghostText)
              /\ Commit(resetCompletionRefs(clearGhostText(Cur)))
              /\ last' = EditEvent("accept")
  /\ UNCHANGED isConnected

\* handleKeyDown, Tab with a completion: acceptGhostText, then the refs
KeyTabAccept ==
  /\ TabBranch(currentCompletionRef) = "accept"
  /\ LET ghostText == storage.ghostText
         position  == storage.position
     IN  IF ghostText = <<>>
         THEN /\ Commit(resetCompletionRefs(Cur))
              /\ last' = Event("other")
              /\ UNCHANGED <<doc, cursor>>
         ELSE /\ OffsetOf(position) \in 0..Len(doc)
              /\ doc' = acceptGhostText(doc, storage)
              /\ cursor' = OffsetOf(position) + Len(ghostText)
              /\ Commit(resetCompletionRefs(
                   dispatch(clearGhostText(Cur), cursor' # cursor, TRUE,
                            SelectionFrom(cursor'))))
              /\ last' = EditEvent("accept")
  /\ UNCHANGED isConnected

Indent == <<" ", " ">>

\* handleKeyDown, Tab without a completion: insertContent('  ')
KeyTabIndent ==
  /\ TabBranch(currentCompletionRef) = "indent"
  /\ doc' = insertAt(doc, cursor, Indent)
  /\ cursor' = cursor + Len(Indent)
  /\ Commit(dispatch(Cur, TRUE, TRUE, SelectionFrom(cursor + Len(Indent))))
  /\ last' = EditEvent("edit")
  /\ UNCHANGED isConnected

\* mutant: Escape resets the refs but leaves the overlay
KeyEscape_RefsOnly ==
  /\ Commit(IF currentCompletionRef # <<>> THEN resetCompletionRefs(Cur) ELSE Cur)
  /\ last' = Event("other")
  /\ UNCHANGED <<doc, cursor, isConnected>>

\* handleKeyDown, Escape
KeyEscape ==
  /\ Commit(IF currentCompletionRef # <<>>
            THEN resetCompletionRefs(clearGhostText(Cur))
            ELSE Cur)
  /\ last' = Event(IF storage'.ghostText # storage.ghostText THEN "escape" ELSE "other")
  /\ UNCHANGED <<doc, cursor, isConnected>>

\* one unit of time passes; a timer that is due fires before the next tick
Tick ==
  /\ \A t \in timers : t.remaining > 0
  /\ timers # {} \/ sinceEdit < DebounceTicks
  /\ timers' = {[t EXCEPT !.remaining = @ - 1] : t \in timers}
  /\ sinceEdit' = IF sinceEdit < DebounceTicks THEN sinceEdit + 1 ELSE sinceEdit
  /\ last' = Event("other")
  /\ UNCHANGED <<doc, cursor, currentCompletionRef, completionPositionRef,
                 lastContextRef, hasCompletion, internalLoading, storage,
                 debounceTimerRef, pending, abortControllerRef, status, error,
                 isConnected, editedSinceShow>>

\* the dedupe key of the text before the cursor
KeyAt(d, offset) == buildSmartContext(SubSeq(d, 1, offset), offset)

\* the debounce timer t fires: triggerCompletionRequest up to its await, then
\* the continuations of the call it aborted
TimerFire(t) ==
  /\ t \in timers
  /\ t.remaining = 0
  /\ \E from \in {SelectionFrom(cursor)} :
     \E pol \in {Policy(KeyAt(doc, cursor), lastContextRef)} :
     \E s1 \in {triggerCompletionRequest([Cur EXCEPT !.timers = timers \ {t}],
                                         doc, from, isConnected)} :
     \E s2 \in {drainAborted(s1)} :
       LET n    == Cardinality({r \in s1.pending : r.aborted})
           type == IF pol # "pass" THEN pol
                   ELSE IF ~isConnected THEN "offline"
                   ELSE IF s2.pending \ pending # {} THEN "issue" ELSE "noCall"
       IN  /\ Commit(s2)
           /\ last' = [Event(type) EXCEPT !.aborted = n]
  /\ UNCHANGED <<doc, cursor, isConnected>>

\* what requestCompletion returns for each raw backend output
cleaned == [raw \in RawOutputs |-> cleanCompletionText(raw, stopSequences)]

\* the backend answers the call r with the raw text: requestCompletion
\* resumes, cleans and returns; triggerCompletionRequest resumes
RespondSuccess(r, raw) ==
  /\ r \in pending
  /\ \E completion \in {cleaned[raw]} :
     \E s1 \in {requestCompletionResolved([Cur EXCEPT !.pending = pending \ {r}])} :
     \E s2 \in {completionArrived(s1, completion, r.from, SelectionFrom(cursor))} :
     \E s3 \in {completionArrived(clearGhostText(s1), completion, r.from,
                                  SelectionFrom(cursor))} :
       /\ Commit(s2)
       /\ last' = [Event("response") EXCEPT
                     !.ok         = TRUE,
                     !.text       = completion,
                     !.displayed  = (s3.st.ghostText # <<>>),
                     !.fromMatch  = (SelectionFrom(cursor) = r.from),
                     !.stale      = r.stale,
                     !.superseded = r.superseded]
  /\ UNCHANGED <<doc, cursor, isConnected>>

\* the call r fails (transport error, non-2xx status, missing API key)
RespondFailure(r, message) ==
  /\ r \in pending
  /\ \E s1 \in {requestCompletionRejected([Cur EXCEPT !.pending = pending \ {r}],
                                          message)} :
     \E s2 \in {completionArrived(s1, <<>>, r.from, SelectionFrom(cursor))} :
     \E s3 \in {completionArrived(clearGhostText(s1), <<>>, r.from,
                                  SelectionFrom(cursor))} :
       /\ Commit(s2)
       /\ last' = [Event("response") EXCEPT
                     !.displayed  = (s3.st.ghostText # <<>>),
                     !.fromMatch  = (SelectionFrom(cursor) = r.from),
                     !.stale      = r.stale,
                     !.superseded = r.superseded]
  /\ UNCHANGED <<doc, cursor, isConnected>>

\* a connection check finishes and reports connected = b
ConnectionChecked(b) ==
  /\ b # isConnected
  /\ isConnected' = b
  /\ last' = Event("other")
  /\ UNCHANGED <<doc, cursor, currentCompletionRef, completionPositionRef,
                 lastContextRef, hasCompletion, internalLoading, storage, timers,
                 debounceTimerRef, pending, abortControllerRef, status, error,
                 sinceEdit, editedSinceShow>>

\* history: a suggestion is due from the moment an edit leaves a key that passes
\* the policy until the cursor moves, the user dismisses what is showing, the
\* timer fires while the service is not connected, or the backend answers the
\* new call with a failure or with nothing presentable; a further edit starts
\* the next obligation (1 <-> 2)
Owe ==
  owed' =
    IF doc' # doc
    THEN IF Policy(KeyAt(doc', cursor'), lastContextRef') = "pass"
         THEN (IF owed = 1 THEN 2 ELSE 1) ELSE 0
    ELSE IF cursor' # cursor THEN 0
    ELSE IF storage.ghostText # <<>> /\ storage'.ghostText = <<>> THEN 0
    ELSE IF timers' # timers /\ last'.type \in {"offline", "noCall"} THEN 0
    ELSE IF pending' # pending /\ last'.type = "response" /\ ~last'.stale
            /\ (~last'.ok \/ last'.text = <<>>) THEN 0
    ELSE owed

Next ==
  \/ \E c \in TypedChars : Len(doc) < MaxDocLen /\ TypeChar(c) /\ UNCHANGED <<owed, hist, applied, ollama>>
  \/ Backspace /\ UNCHANGED <<owed, hist, applied, ollama>>
  \/ DeleteForward /\ UNCHANGED <<owed, hist, applied, ollama>>
  \/ \E o \in 0..Len(doc) : MoveCursor(o) /\ UNCHANGED <<owed, hist, applied, ollama>>
  \/ Len(doc) <= MaxDocLen /\ KeyTabAccept /\ UNCHANGED <<owed, hist, applied, ollama>>
  \/ Len(doc) + Len(Indent) <= MaxDocLen /\ KeyTabIndent /\ UNCHANGED <<owed, hist, applied, ollama>>
  \/ KeyEscape /\ UNCHANGED <<owed, hist, applied, ollama>>
  \/ Tick /\ UNCHANGED <<owed, hist, applied, ollama>>
  \/ \E t \in timers : TimerFire(t) /\ UNCHANGED <<owed, hist, applied, ollama>>
  \/ \E r \in pending, raw \in RawOutputs : RespondSuccess(r, raw) /\ UNCHANGED <<owed, hist, applied, ollama>>
  \/ \E r \in pending, m \in ErrorMessages : RespondFailure(r, m) /\ UNCHANGED <<owed, hist, applied, ollama>>
  \/ \E b \in BOOLEAN : ConnectionChecked(b) /\ UNCHANGED <<owed, hist, applied, ollama>>

Spec == Init /\ [][Next]_vars

\* the user only types, deletes, moves, accepts and dismisses (no Tab indent)
TypingNext ==
  \/ \E c \in TypedChars : Len(doc) < MaxTypedLen /\ TypeChar(c) /\ Owe /\ UNCHANGED <<hist, applied, ollama>>
  \/ Backspace /\ Owe /\ UNCHANGED <<hist, applied, ollama>>
  \/ DeleteForward /\ Owe /\ UNCHANGED <<hist, applied, ollama>>
  \/ \E o \in 0..Len(doc) : MoveCursor(o) /\ Owe /\ UNCHANGED <<hist, applied, ollama>>
  \/ Len(doc) <= MaxTypedLen /\ KeyTabAccept /\ Owe /\ UNCHANGED <<hist, applied, ollama>>
  \/ KeyEscape /\ Owe /\ UNCHANGED <<hist, applied, ollama>>
  \/ Tick /\ Owe /\ UNCHANGED <<hist, applied, ollama>>
  \/ \E t \in timers : TimerFire(t) /\ Owe /\ UNCHANGED <<hist, applied, ollama>>
  \/ \E r \in pending, raw \in RawOutputs : RespondSuccess(r, raw) /\ Owe /\ UNCHANGED <<hist, applied, ollama>>
  \/ \E r \in pending, m \in ErrorMessages : RespondFailure(r, m) /\ Owe /\ UNCHANGED <<hist, applied, ollama>>
  \/ \E b \in BOOLEAN : ConnectionChecked(b) /\ Owe /\ UNCHANGED <<hist, applied, ollama>>

\* the clock advances, a due timer fires, and the backend answers every call
Fairness ==
  /\ WF_vars(Tick /\ Owe /\ UNCHANGED <<hist, applied, ollama>>)
  /\ WF_vars(\E t \in timers : TimerFire(t) /\ Owe /\ UNCHANGED <<hist, applied, ollama>>)
  /\ WF_vars(\/ \E r \in pending, raw \in RawOutputs :
                  RespondSuccess(r, raw) /\ Owe /\ UNCHANGED <<hist, applied, ollama>>
             \/ \E r \in pending, m \in ErrorMessages :
                  RespondFailure(r, m) /\ Owe /\ UNCHANGED <<hist, applied, ollama>>)

TypingSpec == Init /\ [][TypingNext]_vars

\* history of the same steps:
\*   moved:  the cursor moved (without an edit) while the call that is now in
\*           flight was in flight
\*   failed: "failed" from a failed call until the next edit, "edited" from
\*           that edit until the next call is issued, else "no"
\*   over:   the last step edited the document under a showing suggestion
\*   issued: the dedupe key of the call that was issued last
\*   accepted: the last change of the document was an acceptance
Track ==
  hist' =
    [moved  |-> IF last'.type = "issue" \/ pending' = {} THEN FALSE
                ELSE IF cursor' # cursor /\ doc' = doc /\ pending # {} THEN TRUE
                ELSE hist.moved,
     failed |-> IF last'.type = "issue" THEN "no"
                ELSE IF pending' # pending /\ last'.type = "response" /\ ~last'.ok
                THEN "failed"
                ELSE IF doc' # doc /\ hist.failed = "failed" THEN "edited"
                ELSE hist.failed,
     over   |-> (storage.ghostText # <<>> /\ doc' # doc),
     issued |-> IF last'.type = "issue" THEN lastContextRef' ELSE hist.issued,
     accepted |-> IF last'.type = "accept" THEN TRUE
                  ELSE IF doc' # doc THEN FALSE ELSE hist.accepted]

\* the same steps as TypingNext, with their history
TrackedNext ==
  \/ \E c \in TypedChars : Len(doc) < MaxTypedLen /\ TypeChar(c) /\ Track /\ UNCHANGED <<owed, applied, ollama>>
  \/ Backspace /\ Track /\ UNCHANGED <<owed, applied, ollama>>
  \/ DeleteForward /\ Track /\ UNCHANGED <<owed, applied, ollama>>
  \/ \E o \in 0..Len(doc) : MoveCursor(o) /\ Track /\ UNCHANGED <<owed, applied, ollama>>
  \/ Len(doc) <= MaxTypedLen /\ KeyTabAccept /\ Track /\ UNCHANGED <<owed, applied, ollama>>
  \/ KeyEscape /\ Track /\ UNCHANGED <<owed, applied, ollama>>
  \/ Tick /\ Track /\ UNCHANGED <<owed, applied, ollama>>
  \/ \E t \in timers : TimerFire(t) /\ Track /\ UNCHANGED <<owed, applied, ollama>>
  \/ \E r \in pending, raw \in RawOutputs : RespondSuccess(r, raw) /\ Track /\ UNCHANGED <<owed, applied, ollama>>
  \/ \E r \in pending, m \in ErrorMessages : RespondFailure(r, m) /\ Track /\ UNCHANGED <<owed, applied, ollama>>
  \/ \E b \in BOOLEAN : ConnectionChecked(b) /\ Track /\ UNCHANGED <<owed, applied, ollama>>

TrackedSpec == Init /\ [][TrackedNext]_vars

LiveSpec == TypingSpec /\ Fairness

(***************************************************************************)
(* Properties.                                                             *)
(***************************************************************************)
(***************************************************************************)
(* The Tab and Escape handlers and cursor moves on their own, started with *)
(* a suggestion showing: the state after triggerCompletionRequest          *)
(* displayed the text g at the cursor c of the document d.                 *)
(***************************************************************************)
\* longest document a suggestion is showing in at the start
MaxKeyDocLen == 4

\* characters of those documents, and the suggestions shown
KeyChars == {"a", "b"}
Suggestions == { <<"c">>, <<"c", "d">> }

ShownState(d, c, g) ==
  completionArrived(
    [cur     |-> <<>>,                pos    |-> 0,
     lastCtx |-> KeyAt(d, c),         has    |-> FALSE,
     loading |-> TRUE,                st     |-> [ghostText |-> <<>>, position |-> 0],
     timers  |-> {},                  tref   |-> 1,
     pending |-> {},                  acRef  |-> 1,
     status  |-> "success",           error  |-> NoError,
     since   |-> DebounceTicks,       edited |-> FALSE],
    g, SelectionFrom(c), SelectionFrom(c))

KeyInit ==
  \E n \in MinContextLen..MaxKeyDocLen : \E d \in [1..n -> KeyChars] :
  \E c \in 0..n : \E g \in Suggestions : \E s \in {ShownState(d, c, g)} :
    /\ ~ContextTooShort(KeyAt(d, c))
    /\ doc = d
    /\ cursor = c
    /\ currentCompletionRef = s.cur
    /\ completionPositionRef = s.pos
    /\ lastContextRef = s.lastCtx
    /\ hasCompletion = s.has
    /\ internalLoading = s.loading
    /\ storage = s.st
    /\ timers = s.timers
    /\ debounceTimerRef = s.tref
    /\ pending = s.pending
    /\ abortControllerRef = s.acRef
    /\ status = s.status
    /\ error = s.error
    /\ isConnected = TRUE
    /\ sinceEdit = s.since
    /\ editedSinceShow = s.edited
    /\ owed = 0
    /\ hist = [moved |-> FALSE, failed |-> "no", over |-> FALSE, issued |-> <<>>,
          accepted |-> FALSE]
    /\ applied = NoCall
    /\ ollama = Mounted
    /\ last = [Event("response") EXCEPT !.ok = TRUE, !.text = g,
                                        !.fromMatch = TRUE, !.displayed = TRUE]

KeyNext ==
  \/ Len(doc) <= MaxKeyDocLen /\ KeyTabAccept /\ UNCHANGED <<owed, hist, applied, ollama>>
  \/ Len(doc) <= MaxKeyDocLen /\ KeyTabIndent /\ UNCHANGED <<owed, hist, applied, ollama>>
  \/ KeyEscape /\ UNCHANGED <<owed, hist, applied, ollama>>
  \/ \E o \in 0..Len(doc) : MoveCursor(o) /\ UNCHANGED <<owed, hist, applied, ollama>>

KeySpec == KeyInit /\ [][KeyNext]_vars

(***************************************************************************)
(* buildSmartContext on its own: every text over a small alphabet and      *)
(* every cursor position in it.                                            *)
(***************************************************************************)
\* longest text given to buildSmartContext
MaxContextTextLen == 5

ContextChars == {"a", " ", "\n"}

ContextTexts == UNION {[1..n -> ContextChars] : n \in 0..MaxContextTextLen}

\* every variable but applied
editorVars ==
  <<doc, cursor, currentCompletionRef, completionPositionRef, lastContextRef,
    hasCompletion, internalLoading, storage, timers, debounceTimerRef,
    pending, abortControllerRef, status, error, isConnected, sinceEdit,
    editedSinceShow, owed, hist, ollama, last>>

ContextInit ==
  /\ EditorInit
  /\ \E t \in ContextTexts : \E c \in 0..Len(t) :
       applied = [fn |-> "input", arg |-> [text |-> t, cursorPos |-> c],
                  out |-> <<>>]

ApplyBuildSmartContext ==
  /\ applied.fn = "input"
  /\ applied' = [applied EXCEPT
                   !.fn  = "buildSmartContext",
                   !.out = buildSmartContext(applied.arg.text, applied.arg.cursorPos)]
  /\ UNCHANGED editorVars

ContextNext == ApplyBuildSmartContext

ContextSpec == ContextInit /\ [][ContextNext]_vars

(***************************************************************************)
(* cleanCompletionText on its own: raw outputs put together from a few     *)
(* pieces, and a few lists of stop sequences.                              *)
(***************************************************************************)
\* largest number of pieces a raw output is put together from
MaxRawPieces == 4

\* protocol markers a model may emit
Markers ==
  { <<"<", "|", "f", "i", "m", "_", "m", "i", "d", "d", "l", "e", "|", ">">>,
    <<"<", "|", "e", "n", "d", "o", "f", "t", "e", "x", "t", "|", ">">>,
    <<"<", "|", "i", "m", "_", "e", "n", "d", "|", ">">>,
    <<"<", "|", "e", "n", "d", "|", ">">> }

RawPieces ==
  { <<"a">>, <<"b">>, <<" ">>, <<"\n">>, <<"\"">>, <<"'">>, <<"a", "\n">> }
  \cup Markers

RECURSIVE concat(_)
concat(pieces) ==
  IF pieces = <<>> THEN <<>> ELSE Head(pieces) \o concat(Tail(pieces))

RawTexts ==
  {concat(ps) : ps \in UNION {[1..n -> RawPieces] : n \in 0..MaxRawPieces}}

\* the raw outputs that are put together from markers only
MarkerTexts ==
  {concat(ms) : ms \in UNION {[1..n -> Markers] : n \in 0..MaxRawPieces}}

\* the configured stop sequences, none, and two that overlap in both orders
StopLists ==
  { stopSequences, <<>>,
    << <<"b">>, <<"a", "b">> >>, << <<"a", "b">>, <<"b">> >> }

CleanInit ==
  /\ EditorInit
  /\ \E t \in RawTexts : \E st \in StopLists :
       applied = [fn |-> "input", arg |-> [text |-> t, stops |-> st],
                  out |-> <<>>]

ApplyCleanCompletionText ==
  /\ applied.fn = "input"
  /\ applied' = [applied EXCEPT
                   !.fn  = "cleanCompletionText",
                   !.out = cleanCompletionText(applied.arg.text, applied.arg.stops)]
  /\ UNCHANGED editorVars

CleanNext == ApplyCleanCompletionText

CleanSpec == CleanInit /\ [][CleanNext]_vars

(***************************************************************************)
(* The request on its own: the debounce timer of an edit is due in a       *)
(* document of several lines, with the cursor anywhere in it.              *)
(***************************************************************************)
\* longest document a request is issued for
MaxRequestDocLen == 5

RequestChars == {"a", " ", "\n"}

RequestInit ==
  \E n \in 0..MaxRequestDocLen : \E d \in [1..n -> RequestChars] :
  \E c \in 0..n :
    /\ doc = d
    /\ cursor = c
    /\ currentCompletionRef = <<>>
    /\ completionPositionRef = 0
    /\ lastContextRef = <<>>
    /\ hasCompletion = FALSE
    /\ internalLoading = FALSE
    /\ storage = [ghostText |-> <<>>, position |-> 0]
    /\ timers = {[id |-> 1, remaining |-> 0]}
    /\ debounceTimerRef = 1
    /\ pending = {}
    /\ abortControllerRef = 0
    /\ status = "idle"
    /\ error = NoError
    /\ isConnected = TRUE
    /\ sinceEdit = DebounceTicks
    /\ editedSinceShow = FALSE
    /\ owed = 0
    /\ hist = [moved |-> FALSE, failed |-> "no", over |-> FALSE, issued |-> <<>>,
          accepted |-> FALSE]
    /\ applied = NoCall
    /\ ollama = Mounted
    /\ last = Event("other")

RequestNext ==
  \/ \E t \in timers : TimerFire(t) /\ UNCHANGED <<owed, hist, applied, ollama>>
  \/ \E r \in pending, raw \in RawOutputs : RespondSuccess(r, raw) /\ UNCHANGED <<owed, hist, applied, ollama>>
  \/ \E r \in pending, m \in ErrorMessages : RespondFailure(r, m) /\ UNCHANGED <<owed, hist, applied, ollama>>

RequestSpec == RequestInit /\ [][RequestNext]_vars

(***************************************************************************)
(* acceptGhostText on its own: every stored text of a few characters with  *)
(* line breaks, at a few positions.                                        *)
(***************************************************************************)
\* longest stored suggestion
MaxGhostLen == 4

GhostChars == {"a", "b", "\n"}

GhostTexts == UNION {[1..n -> GhostChars] : n \in 0..MaxGhostLen}

AcceptInit ==
  /\ EditorInit
  /\ \E g \in GhostTexts : \E p \in 1..2 :
       applied = [fn |-> "input", arg |-> [ghostText |-> g, position |-> p],
                  out |-> <<>>]

ApplyAcceptGhostText ==
  /\ applied.fn = "input"
  /\ applied' = [applied EXCEPT
                   !.fn  = "acceptGhostText",
                   !.out = acceptGhostTextCommand(applied.arg)]
  /\ UNCHANGED editorVars

AcceptNext == ApplyAcceptGhostText

AcceptSpec == AcceptInit /\ [][AcceptNext]_vars

(***************************************************************************)
(* requestCompletion on its own: a caller hands it contexts of any length, *)
(* also while an earlier call is in flight, and the backend answers.       *)
(***************************************************************************)
\* longest prefix handed to requestCompletion
MaxHookPrefixLen == 3

HookChars == {"a", " "}

HookPrefixes == UNION {[1..n -> HookChars] : n \in 0..MaxHookPrefixLen}

\* the caller calls requestCompletion({prefix, suffix: ''}); the catch of a
\* call that this aborted runs in the same task
RequestCompletionCalled(prefix) ==
  \E context \in {[prefix |-> prefix, suffix |-> <<>>]} :
  \E s1 \in {requestCompletion(Cur, context, SelectionFrom(cursor))} :
  \E s2 \in {drainAborted(s1)} :
    LET n == Cardinality({r \in s1.pending : r.aborted})
    IN  /\ Commit(s2)
        /\ last' = [Event(IF s2.pending \ pending # {} THEN "issue" ELSE "noCall")
                      EXCEPT !.aborted = n]
        /\ applied' = [fn  |-> "requestCompletion",
                       arg |-> context,
                       out |-> requestCompletionReturn(context)]
        /\ UNCHANGED <<doc, cursor, isConnected, owed, hist, ollama>>

HookNext ==
  \/ \E prefix \in HookPrefixes : RequestCompletionCalled(prefix)
  \/ \E r \in pending, raw \in RawOutputs : RespondSuccess(r, raw) /\ UNCHANGED <<owed, hist, applied, ollama>>
  \/ \E r \in pending, m \in ErrorMessages : RespondFailure(r, m) /\ UNCHANGED <<owed, hist, applied, ollama>>

HookSpec == Init /\ [][HookNext]_vars

(***************************************************************************)
(* useOllamaStatus on its own: the check of the mount effect, the checks   *)
(* of the 30 second interval and the manual refreshes.  Nothing orders     *)
(* them, so a check may start while another is waiting for its answer, and *)
(* the answers come in any order.                                          *)
(***************************************************************************)
\* number of checks that are started
MaxChecks == 4

\* what a failed check reports: an HTTP status or a network error
CheckErrors == {"http", "network"}

\* model lists the service answers with
ModelLists == {<<>>, <<"m">>}

\* the variables of the editor and of useAICompletion
completionVars ==
  <<doc, cursor, currentCompletionRef, completionPositionRef, lastContextRef,
    hasCompletion, internalLoading, storage, timers, debounceTimerRef,
    pending, abortControllerRef, status, error, sinceEdit, editedSinceShow,
    owed, hist, applied, last>>

\* checkConnection up to its await: setIsChecking(true), setError(null), fetch
checkConnectionStarted ==
  /\ ollama.started < MaxChecks
  /\ ollama' = [ollama EXCEPT !.isChecking = TRUE,
                              !.error      = NoError,
                              !.inflight   = @ \cup {ollama.started + 1},
                              !.started    = @ + 1]
  /\ UNCHANGED isConnected
  /\ UNCHANGED completionVars

\* the fetch of the check c answered ok with a list of models
checkConnectionResolved(c, models) ==
  /\ c \in ollama.inflight
  /\ isConnected' = TRUE
  /\ ollama' = [ollama EXCEPT !.models     = models,
                              !.isChecking = FALSE,
                              !.inflight   = @ \ {c},
                              !.finished   = "ok"]
  /\ UNCHANGED completionVars

\* the fetch of the check c failed or answered with an error status
checkConnectionRejected(c, errorMessage) ==
  /\ c \in ollama.inflight
  /\ isConnected' = FALSE
  /\ ollama' = [ollama EXCEPT !.error      = errorMessage,
                              !.models     = <<>>,
                              !.isChecking = FALSE,
                              !.inflight   = @ \ {c},
                              !.finished   = "failed"]
  /\ UNCHANGED completionVars

CheckNext ==
  \/ checkConnectionStarted
  \/ \E c \in ollama.inflight, models \in ModelLists : checkConnectionResolved(c, models)
  \/ \E c \in ollama.inflight, m \in CheckErrors : checkConnectionRejected(c, m)

CheckSpec == Init /\ [][CheckNext]_vars

KeyNow == KeyAt(doc, cursor)

Showing == storage.ghostText # <<>>

\* a step in which a debounce timer fired
FireStep == timers' # timers /\ timers' \subseteq timers

\* a step in which a backend call was answered
ResponseStep == pending' # pending /\ last'.type = "response"

\* C1: at most one backend call is outstanding and not cancelled; starting a
\* call aborts the previously started one, so no call that is in flight has
\* been superseded by a later call.
C1_AtMostOneLiveCall ==
  /\ Cardinality({r \in pending : ~r.aborted}) <= 1
  /\ \A r \in pending : ~r.superseded

\* a call was started while the previous one was in flight, which it aborted
C1_Witness ==
  last.type = "issue" /\ last.aborted = 1 /\ Cardinality(pending) = 1

\* C2 (as claimed): a displayed suggestion never comes from a call that was
\* issued before the most recent edit.
C2_NoStaleDisplay ==
  (last.type = "response" /\ last.displayed) => ~last.stale

\* C3 (as claimed): after an edit no call is in flight any more (the edit
\* itself cancelled it) and exactly one timer runs, with the full delay.
C3_EditCancelsInFlight ==
  IsEdit(last) =>
    /\ pending = {}
    /\ timers = {[id |-> debounceTimerRef, remaining |-> DebounceTicks]}

\* C4: the response of a cancelled (superseded) call is never displayed: no
\* answered call was superseded, and the task that aborts a call leaves the
\* overlay as it was.
C4_CancelledNeverDisplayed ==
  /\ [](last.type = "response" => ~last.superseded)
  /\ [][(FireStep /\ last'.aborted > 0) =>
          /\ storage' = storage
          /\ currentCompletionRef' = currentCompletionRef
          /\ completionPositionRef' = completionPositionRef]_vars

\* the continuation of an aborted call ran and nothing is displayed
C4_Witness ==
  /\ last.type = "issue" /\ last.aborted = 1
  /\ status = "idle" /\ ~internalLoading /\ ~Showing

\* C5: a response is displayed only if the cursor is at the position recorded
\* when the call was issued; otherwise nothing is shown and a successful
\* response sets no error.
C5_DisplayedOnlyAtRequestPosition ==
  /\ []((last.type = "response" /\ last.displayed) => last.fromMatch)
  /\ [][(ResponseStep /\ ~last'.fromMatch) =>
          /\ storage' = storage
          /\ currentCompletionRef' = currentCompletionRef
          /\ completionPositionRef' = completionPositionRef
          /\ hasCompletion' = hasCompletion
          /\ last'.ok => (status' # "error" /\ error' = error)]_vars

\* a presentable response arrived after the cursor had moved and was dropped
C5_Witness ==
  /\ last.type = "response" /\ last.ok /\ last.text # <<>>
  /\ ~last.fromMatch /\ ~last.displayed /\ ~Showing /\ status = "success"

\* C6: while a suggestion is showing, the cursor is at its anchor position and
\* the document has not been edited since it was set.
C6_ShowingOnlyAtAnchor ==
  Showing => (SelectionFrom(cursor) = storage.position /\ ~editedSinceShow)

\* a response has just been put on the overlay
C6_Witness == Showing /\ last.type = "response" /\ last.displayed

\* C7: at most one timer is pending; after an edit it is the one just set, with
\* the full delay; and a call is issued only when the full delay has passed
\* since the last edit.
C7_DebounceReset ==
  /\ Cardinality(timers) <= 1
  /\ IsEdit(last) => timers = {[id |-> debounceTimerRef, remaining |-> DebounceTicks]}
  /\ last.type = "issue" => sinceEdit >= DebounceTicks

\* an edit arrived while the timer of the previous edit was still pending
C7_Witness == IsEdit(last) /\ last.reset /\ Cardinality(timers) = 1

\* C9: no call carries a dedupe key of trimmed length below 3, and a timer
\* fire on such a key neither starts a call nor touches the loading state.
C9_ShortContextNeverRequested ==
  /\ [](\A r \in pending : Len(trim(r.key)) >= MinContextLen)
  /\ [](last.type = "issue" => Len(trim(KeyNow)) >= MinContextLen)
  /\ [][(FireStep /\ Len(trim(KeyNow)) < MinContextLen) =>
          /\ pending' = pending
          /\ status' = status
          /\ internalLoading' = internalLoading]_vars

\* the timer fired on a key of length 3 or more whose trimmed length is less
C9_Witness ==
  /\ last.type = "short"
  /\ Len(KeyNow) >= MinContextLen /\ Len(trim(KeyNow)) < MinContextLen

\* C10 (as claimed): a timer fire whose key equals the key of the most
\* recently issued call (here: a call that is still in flight) issues no call.
C10_NoCallForLastIssuedKey ==
  [][(FireStep /\ \E r \in pending : r.key = KeyNow) => last'.type # "issue"]_vars

\* C10 (amended): a timer fire whose key equals lastContextRef, the key stored
\* by the last fire that passed both checks, changes nothing; a fire that
\* issues a call has a different key and stores it.
C10_NoCallForStoredKey ==
  [][FireStep =>
      /\ KeyNow = lastContextRef =>
            /\ last'.type = "duplicate" \/ last'.type = "short"
            /\ pending' = pending
            /\ lastContextRef' = lastContextRef
      /\ last'.type = "issue" =>
            /\ KeyNow # lastContextRef
            /\ lastContextRef' = KeyNow]_vars

\* the timer fired on the stored key, which is long enough
C10_Witness ==
  last.type = "duplicate" /\ KeyNow = lastContextRef /\ ~ContextTooShort(KeyNow)

\* a suggestion is showing, anchored at the cursor
ShownAtCursor == Showing /\ storage.position = SelectionFrom(cursor)

C11_MoveAwayEmptiesOverlay ==
  [][(Showing /\ cursor' # cursor /\ doc' = doc) =>
       /\ storage'.ghostText = <<>>
       /\ currentCompletionRef' = <<>>
       /\ acceptGhostText(doc', storage') = doc'
       /\ TabBranch(currentCompletionRef') = "indent"]_vars

\* the cursor moved away from a showing suggestion
C11_Witness == last.type = "move" /\ ~Showing /\ currentCompletionRef = <<>>

\* C12 (as claimed): the response to a call during whose flight the cursor
\* moved is never displayed (here: of a call that no edit made stale, so the
\* cursor is back where it was).
C12_MoveInvalidatesRequest ==
  [][(ResponseStep /\ last'.displayed /\ ~last'.stale) => ~hist.moved]_vars

\* C13: every step that changes the document while a suggestion is showing
\* leaves the overlay empty and the completion refs reset, wherever the cursor
\* ends up.
C13_EditRemovesSuggestion ==
  [][(Showing /\ doc' # doc) =>
       /\ storage'.ghostText = <<>>
       /\ currentCompletionRef' = <<>>
       /\ ~hasCompletion']_vars

\* the last step edited the document under a showing suggestion
C13_Witness == hist.over /\ ~Showing

\* C14: accepting a showing suggestion with Tab makes the document
\* prefix + text + suffix, split at the anchor; the overlay and the refs are
\* emptied; while a suggestion shows, Tab takes the accept branch (no indent).
C14_AcceptInsertsAtAnchor ==
  /\ [](Showing => (TabBranch(currentCompletionRef) = "accept"
                    /\ currentCompletionRef = storage.ghostText))
  /\ [][(Showing /\ last'.type = "accept") =>
          /\ doc' = textBefore(doc, storage.position) \o storage.ghostText
                    \o textAfter(doc, storage.position)
          /\ storage'.ghostText = <<>>
          /\ currentCompletionRef' = <<>>]_vars

\* a suggestion was accepted in the middle of the text
C14_Witness ==
  /\ last.type = "accept" /\ ~Showing
  /\ \E i \in 1..(Len(doc) - 1) : doc[i] \in {"c", "d"} /\ doc[i + 1] \in KeyChars

\* C15: Escape while a suggestion is showing leaves document and cursor alone
\* and empties the overlay and the refs; a Tab pressed next inserts the indent
\* and not the dismissed text.
C15_EscapeDismisses ==
  /\ [][(Showing /\ KeyEscape) =>
          /\ doc' = doc /\ cursor' = cursor
          /\ storage' = [ghostText |-> <<>>, position |-> 0]
          /\ currentCompletionRef' = <<>>
          /\ ~hasCompletion'
          /\ TabBranch(currentCompletionRef') = "indent"]_vars
  /\ [][(last.type = "escape" /\ (KeyTabAccept \/ KeyTabIndent)) =>
          doc' = insertAt(doc, cursor, Indent)]_vars

\* Escape dismissed a showing suggestion
C15_Witness ==
  last.type = "escape" /\ ~Showing /\ currentCompletionRef = <<>>

\* C16: with no suggestion showing, Tab inserts the indent at the cursor and
\* the overlay stays empty, and Escape changes nothing of the document, the
\* overlay, the timers and the calls.
C16_KeysWithoutSuggestion ==
  /\ [][(~Showing /\ (KeyTabAccept \/ KeyTabIndent)) =>
          /\ doc' = insertAt(doc, cursor, Indent)
          /\ storage' = storage]_vars
  /\ [][(~Showing /\ KeyEscape) =>
          UNCHANGED <<doc, cursor, storage, currentCompletionRef,
                      completionPositionRef, hasCompletion, lastContextRef,
                      internalLoading, timers, debounceTimerRef, pending,
                      abortControllerRef, status, error>>]_vars

\* Tab indented a document that showed no suggestion
C16_Witness ==
  /\ ~Showing /\ last.type = "edit"
  /\ \E i \in 1..Len(doc) : doc[i] = " "

\* C17 (as claimed): a response is put on the overlay only when the overlay
\* is empty.
C17_ShowOnlyFromEmpty ==
  [][(ResponseStep /\ last'.displayed) => ~Showing]_vars

\* C18: a failing call makes requestCompletion return the empty text: the
\* status becomes "error" with the failure's message, the caller's finally
\* runs, and the overlay and the stored suggestion are as they were.
C18_FailureIsReported ==
  [][(ResponseStep /\ ~last'.ok) =>
       /\ status' = "error"
       /\ error' \in ErrorMessages
       /\ ~last'.displayed
       /\ storage' = storage
       /\ currentCompletionRef' = currentCompletionRef
       /\ hasCompletion' = hasCompletion
       /\ ~internalLoading']_vars

\* a call has just failed and nothing is showing
C18_Witness ==
  /\ last.type = "response" /\ ~last.ok
  /\ status = "error" /\ error \in ErrorMessages
  /\ ~Showing

\* a step in which a backend call was started
IssueStep == {r.id : r \in pending'} \ {r.id : r \in pending} # {}

C20_EditAfterFailureIssues ==
  [][(FireStep /\ hist.failed = "edited" /\ isConnected
        /\ ~ContextTooShort(KeyNow)) => IssueStep]_vars

\* C21: a step in which a call ends because it was aborted leaves the error
\* message unset, does not set the status to "error" and puts nothing on
\* the overlay (the call returned the empty text).
C21_CancelIsNotAnError ==
  [][(last'.aborted > 0) =>
       /\ error' = NoError
       /\ status' # "error"
       /\ ~(\E r \in pending' : r.aborted)
       /\ storage' = storage
       /\ currentCompletionRef' = currentCompletionRef]_vars

\* a timer fire has just aborted the call in flight and started a new one
C21_Witness ==
  /\ last.type = "issue" /\ last.aborted > 0
  /\ error = NoError /\ status = "idle"

\* C22: a timer fire whose dedupe key is too short or equal to the stored
\* key changes nothing but the timer: status, error, the loading flag, the
\* stored key, the overlay, the suggestion refs and the calls in flight stay
\* as they were.
C22_PolicyRejectionIsSilent ==
  [][(FireStep /\ (ContextTooShort(KeyNow) \/ KeyNow = lastContextRef)) =>
       UNCHANGED <<status, error, internalLoading, lastContextRef, storage,
                   currentCompletionRef, completionPositionRef, hasCompletion,
                   pending, abortControllerRef, doc, cursor>>]_vars

\* a fire was rejected as a duplicate while a call was in flight
C22_Witness ==
  /\ last.type = "duplicate"
  /\ pending # {} /\ status = "loading" /\ internalLoading

\* C23: a response whose cleaned text is empty leaves the overlay and the
\* suggestion refs as they were, and the text of a showing suggestion has a
\* character that is not white space.
C23_EmptyTextShowsNothing ==
  /\ [](Showing => trim(storage.ghostText) # <<>>)
  /\ [](hasCompletion => currentCompletionRef # <<>>)
  /\ [][(ResponseStep /\ last'.text = <<>>) =>
          /\ ~last'.displayed
          /\ storage' = storage
          /\ currentCompletionRef' = currentCompletionRef
          /\ completionPositionRef' = completionPositionRef
          /\ hasCompletion' = hasCompletion]_vars

\* a successful response with an empty cleaned text arrived while the cursor
\* was at the position of the call, and nothing is showing
C23_Witness ==
  /\ last.type = "response" /\ last.ok /\ last.text = <<>> /\ last.fromMatch
  /\ ~Showing /\ ~hasCompletion

\* C24: for the text p before the cursor, the dedupe key is the current
\* line (what follows the last line break) when it has a character that is
\* not white space, else the nearest preceding line that has one, and p
\* itself when no line has one.
C24_KeyIsLastLineWithText ==
  applied.fn = "buildSmartContext" =>
    LET p          == SubSeq(applied.arg.text, 1, applied.arg.cursorPos)
        Starts     == {i \in 1..(Len(p) + 1) : i = 1 \/ p[i - 1] = "\n"}
        End(i)     == IF \E k \in i..Len(p) : p[k] = "\n"
                      THEN (CHOOSE k \in i..Len(p) :
                              p[k] = "\n" /\ \A j \in i..(k - 1) : p[j] # "\n") - 1
                      ELSE Len(p)
        Line(i)    == SubSeq(p, i, End(i))
        HasText(l) == \E k \in 1..Len(l) : l[k] \notin {" ", "\n", "\t"}
        current    == CHOOSE i \in Starts : \A j \in Starts : j <= i
        WithText   == {i \in Starts : HasText(Line(i))}
        nearest    == CHOOSE i \in WithText : \A j \in WithText : j <= i
    IN  applied.out = IF HasText(Line(current)) THEN Line(current)
                      ELSE IF WithText # {} THEN Line(nearest)
                      ELSE p

\* the key of a text that ends in blank lines after two lines with text is
\* the second of them
C24_Witness ==
  /\ applied.fn = "buildSmartContext"
  /\ applied.arg.cursorPos = Len(applied.arg.text)
  /\ applied.arg.text = <<"a", "\n", "a", "a", "\n">>
  /\ applied.out = <<"a", "a">>

\* C25 (as claimed): the cleaned text is what the cleaner makes of the raw
\* output cut at the smallest index at which any of the stop sequences
\* occurs in it, whatever the order of the list.
C25_CutAtEarliestStop ==
  applied.fn = "cleanCompletionText" =>
    LET raw       == applied.arg.text
        stops     == applied.arg.stops
        Occ(stop) == {i \in 0..(Len(raw) - Len(stop)) :
                        SubSeq(raw, i + 1, i + Len(stop)) = stop}
        hits      == UNION {Occ(stops[k]) : k \in 1..Len(stops)}
        first     == CHOOSE i \in hits : \A j \in hits : i <= j
        cut       == IF hits = {} THEN raw ELSE SubSeq(raw, 1, first)
    IN  applied.out = cleanCompletionText(cut, <<>>)

\* C26 (as claimed): for a raw output of letters and quotes with no stop
\* sequence, the cleaner removes the first and the last character when both
\* are quotes, and returns the text as it is when only one of them is.
C26_QuotesStrippedInPairs ==
  (/\ applied.fn = "cleanCompletionText"
   /\ applied.arg.stops = <<>>
   /\ Len(applied.arg.text) >= 2
   /\ \A i \in 1..Len(applied.arg.text) :
        applied.arg.text[i] \in {"a", "b", "\"", "'"}) =>
    LET raw   == applied.arg.text
        Q(c)  == c \in {"\"", "'"}
    IN  applied.out = IF Q(raw[1]) /\ Q(raw[Len(raw)])
                      THEN SubSeq(raw, 2, Len(raw) - 1)
                      ELSE raw

\* C27: the cleaned text has no blank line, does not start with a line
\* break and does not end in white space; and where nothing is cut or
\* stripped before the lines are taken (no stop sequence, no marker, no quote
\* at either end) it is the first min(3, n) of the n lines of the raw output
\* that are not blank, in their order, joined by single line breaks, without
\* the white space at the end of the last of them.
C27_FirstThreeLines ==
  applied.fn = "cleanCompletionText" =>
    LET raw        == applied.arg.text
        out        == applied.out
        Ws(c)      == c \in {" ", "\n", "\t"}
        Q(c)       == c \in {"\"", "'"}
        Starts     == {i \in 1..(Len(raw) + 1) : i = 1 \/ raw[i - 1] = "\n"}
        End(i)     == IF \E k \in i..Len(raw) : raw[k] = "\n"
                      THEN (CHOOSE k \in i..Len(raw) :
                              raw[k] = "\n" /\ \A j \in i..(k - 1) : raw[j] # "\n") - 1
                      ELSE Len(raw)
        Line(i)    == SubSeq(raw, i, End(i))
        WithText   == {i \in Starts : \E k \in i..End(i) : ~Ws(raw[k])}
        \* the start of the k-th line that is not blank
        Nth(k)     == CHOOSE i \in WithText :
                        Cardinality({j \in WithText : j < i}) = k - 1
        n          == Cardinality(WithText)
        joined     == IF n = 0 THEN <<>>
                      ELSE IF n = 1 THEN Line(Nth(1))
                      ELSE IF n = 2 THEN Line(Nth(1)) \o <<"\n">> \o Line(Nth(2))
                      ELSE Line(Nth(1)) \o <<"\n">> \o Line(Nth(2))
                           \o <<"\n">> \o Line(Nth(3))
        keep       == {k \in 1..Len(joined) : ~Ws(joined[k])}
        expected   == IF keep = {} THEN <<>>
                      ELSE SubSeq(joined, 1, CHOOSE k \in keep : \A j \in keep : j <= k)
        plain      == /\ applied.arg.stops = <<>>
                      /\ \A k \in 1..Len(raw) : raw[k] # "<"
                      /\ raw # <<>> => ~Q(raw[1]) /\ ~Q(raw[Len(raw)])
    IN  /\ out # <<>> => out[1] # "\n" /\ ~Ws(out[Len(out)])
        /\ \A k \in 1..(Len(out) - 1) : ~(out[k] = "\n" /\ out[k + 1] = "\n")
        /\ \A i \in 1..Len(out) : \A j \in i..Len(out) :
             (/\ i = 1 \/ out[i - 1] = "\n"
              /\ j = Len(out) \/ out[j + 1] = "\n") =>
               \E k \in i..j : ~Ws(out[k])
        /\ plain => out = expected

\* a raw output of four lines with text is cut to the first three
C27_Witness ==
  /\ applied.fn = "cleanCompletionText"
  /\ applied.arg.stops = <<>>
  /\ applied.arg.text = <<"a", "\n", "a", "\n", "a", "\n", "b">>
  /\ applied.out = <<"a", "\n", "a", "\n", "a">>

\* C28: the cleaner returns a text for every raw output, and the empty text
\* for the empty raw output and for every raw output that is put together
\* from protocol markers only.
C28_MarkersCleanToEmpty ==
  applied.fn = "cleanCompletionText" =>
    LET Chars == UNION {{p[i] : i \in 1..Len(p)} : p \in RawPieces}
    IN  /\ applied.out \in Seq(Chars)
        /\ applied.arg.text \in MarkerTexts => applied.out = <<>>

\* four markers in a row were cleaned to the empty text
C28_Witness ==
  /\ applied.fn = "cleanCompletionText"
  /\ Len(applied.arg.text) = 14 + 13 + 10 + 7
  /\ \A i \in 1..(Len(applied.arg.text) - 1) :
       applied.arg.text[i] = ">" => applied.arg.text[i + 1] = "<"
  /\ applied.out = <<>>

C31_LoadingWhileInFlight ==
  (\E r \in pending : ~r.aborted) => (status = "loading" /\ internalLoading)

\* C32 (as claimed): the stored key changes only in a timer fire that passes
\* both policy checks, and a call that is issued carries a key other than the
\* key of the call issued before it.
C32_ConsecutiveCallsDiffer ==
  /\ [][lastContextRef' # lastContextRef =>
          (FireStep /\ Len(trim(KeyNow)) >= MinContextLen /\ KeyNow # lastContextRef)]_vars
  /\ [][IssueStep =>
          \A r \in pending' : (r.id \notin {q.id : q \in pending}) => r.key # hist.issued]_vars

\* C32 (amended): the stored key changes only in a timer fire that passes
\* both policy checks, which stores its key whether or not the service is
\* connected; no other step changes it.  A call that is issued carries the
\* key its fire stored, which differs from the key stored before.
C32_KeyChangesOnlyAtPassingFire ==
  /\ [][lastContextRef' # lastContextRef =>
          (FireStep /\ Len(trim(KeyNow)) >= MinContextLen /\ KeyNow # lastContextRef)]_vars
  /\ [][(FireStep /\ Len(trim(KeyNow)) >= MinContextLen /\ KeyNow # lastContextRef) =>
          lastContextRef' = KeyNow]_vars
  /\ [][IssueStep =>
          \A r \in pending' : (r.id \notin {q.id : q \in pending}) =>
             (r.key = lastContextRef' /\ r.key # lastContextRef)]_vars

\* a call failed after the document had been edited: the key stored by its
\* fire is still stored
C32_Witness ==
  /\ last.type = "response" /\ ~last.ok /\ last.stale
  /\ hist.failed = "failed"
  /\ lastContextRef = hist.issued /\ lastContextRef # <<>>
  /\ lastContextRef # KeyNow

\* C33: after every handler the editor's record of the suggestion equals the
\* storage of the overlay: the same text and anchor, or both empty with
\* position 0.
C33_RefsEqualStorage ==
  /\ currentCompletionRef = storage.ghostText
  /\ completionPositionRef = storage.position
  /\ (currentCompletionRef = <<>> => completionPositionRef = 0)

\* a suggestion was shown and then removed again by Escape or a cursor move:
\* the refs and the storage have been set and cleared together
C33_Witness ==
  /\ last.type \in {"escape", "move"}
  /\ storage = [ghostText |-> <<>>, position |-> 0]
  /\ currentCompletionRef = <<>> /\ completionPositionRef = 0
  /\ lastContextRef # <<>>

\* C34 (as claimed): the flag hasCompletion is set exactly in the states in
\* which a suggestion is showing.
C34_FlagIffShowing == hasCompletion <=> Showing

C36_ShortPrefixCancelsOnly ==
  [][(last'.type \in {"issue", "noCall"} /\
      Cardinality({i \in DOMAIN applied'.arg.prefix :
                     ~IsWs(applied'.arg.prefix[i])}) < 2) =>
       /\ last'.type = "noCall"
       /\ applied'.out = [settled |-> TRUE, value |-> <<>>]
       /\ pending' = {}
       /\ last'.aborted = Cardinality(pending)
       /\ abortControllerRef' = 0
       /\ status' = "idle"]_vars

\* a call with a short prefix was made while another call was in flight
C36_Witness ==
  /\ applied.fn = "requestCompletion"
  /\ Len(applied.arg.prefix) = 1
  /\ last.type = "noCall" /\ last.aborted = 1
  /\ status = "idle" /\ pending = {}

\* C37: a timer fire while the service is reported as not connected issues no
\* backend call, aborts no call in flight, leaves the hook's status alone and
\* displays nothing: its completion request resolves to the empty string.
C37_OfflineFireDoesNothing ==
  [][(FireStep /\ ~isConnected) =>
       /\ pending' = pending
       /\ abortControllerRef' = abortControllerRef
       /\ last'.aborted = 0
       /\ status' = status /\ error' = error
       /\ storage' = storage
       /\ currentCompletionRef' = currentCompletionRef
       /\ ~last'.displayed
       /\ last'.type \in {"short", "duplicate", "offline"}
       /\ (last'.type = "offline" => ~internalLoading')]_vars

\* a fire passed the policy while the service was not connected and a call
\* was in flight: the call is still in flight
C37_Witness ==
  /\ last.type = "offline" /\ ~isConnected
  /\ \E r \in pending : ~r.aborted /\ r.id = abortControllerRef
  /\ status = "loading"

\* C38 (as claimed): whatever checks have run and however they overlapped,
\* isConnected is true only if error is null, and isChecking is false only
\* if no check is still waiting for its answer.
C38_StatusConsistent ==
  /\ isConnected => ollama.error = NoError
  /\ ~ollama.isChecking => ollama.inflight = {}

\* C39 (as claimed): cleaning the cleaned text again, with the same stop
\* list, gives the same text; the cleaned text holds no protocol marker and
\* neither starts nor ends with a quote.
C39_CleanerIdempotent ==
  applied.fn = "cleanCompletionText" =>
    LET out == applied.out
    IN  /\ cleanCompletionText(out, applied.arg.stops) = out
        /\ \A m \in Markers : \A i \in 1..(Len(out) - Len(m) + 1) :
             SubSeq(out, i, i + Len(m) - 1) # m
        /\ out # <<>> => /\ out[1] \notin {"\"", "'"}
                         /\ out[Len(out)] \notin {"\"", "'"}

=============================================================================
